---- MODULE Spec2Model ----
(***************************************************************************)
(* Model of src/bot.py: a Telegram bot relaying user text to a chat        *)
(* completion service, with a process-wide store of per-user conversations.*)
(*                                                                         *)
(* Handlers are coroutines.  The completion call (bot.py:63) is made on    *)
(* the synchronous client created at bot.py:32 and is not awaited, so the  *)
(* code from the start of a handler up to its first `await` runs as one    *)
(* step; the only suspension points are the awaited reply_text calls       *)
(* (bot.py:40, 79, 81, 85, 93).  Each awaited send either completes or     *)
(* raises (a delivery error).                                              *)
(*                                                                         *)
(* Texts are not spelled out character by character: a text is the slice   *)
(* [lo, hi) of a named source string, so that slicing, length and          *)
(* concatenation are computed as Python computes them on 4000-character    *)
(* boundaries without enumerating the characters.                          *)
(*                                                                         *)
(* Spec interleaves two handler invocations for two users.  SpecSerial     *)
(* runs one handler at a time for one user, with replies of every length   *)
(* around the chunk boundaries and longer histories.  SpecConfig starts    *)
(* the process in every environment.  SpecUser interleaves two handler     *)
(* invocations for one user.                                               *)
(***************************************************************************)
EXTENDS Integers, Sequences, FiniteSets, TLC

-----------------------------------------------------------------------------
(* Bounds of the model *)

\* A message handler is not started for a conversation that already has
\* this many turns (the program itself never bounds the history).
MaxTurns == 2

\* The same cap where handlers run one at a time for one user.
MaxTurnsSequential == 4

\* Concurrent handler invocations the transport framework may have open.
Tasks == {1, 2}

\* Telegram user ids.
Users == {7, 42}

\* Texts of inbound user messages.
UserTexts == {"hello"}

-----------------------------------------------------------------------------
(* Texts *)

\* bot.py:77-78: the maximum length of one outbound chunk.
MAX_CHUNK == 4000

\* A Python str: characters lo .. hi-1 of the source string src.
Str(src, n) == [is_none |-> FALSE, src |-> src, lo |-> 0, hi |-> n]

\* Python's None where a str is expected (message.content is Optional).
None == [is_none |-> TRUE, src |-> "", lo |-> 0, hi |-> 0]

\* len(s) for a str s.
StrLen(s) == s.hi - s.lo

Min(a, b) == IF a <= b THEN a ELSE b

\* s[i:j] for 0 <= i <= j: Python clamps both ends to len(s).
Slice(s, i, j) ==
    [is_none |-> FALSE, src |-> s.src,
     lo |-> s.lo + Min(i, StrLen(s)), hi |-> s.lo + Min(j, StrLen(s))]

\* a + b for two strs cut from the same source, b starting where a ends;
\* any other pair is not a slice of the source and is reported as None.
Concat(a, b) ==
    IF a.is_none \/ b.is_none THEN None
    ELSE IF StrLen(b) = 0 THEN a
    ELSE IF StrLen(a) = 0 THEN b
    ELSE IF a.src = b.src /\ a.hi = b.lo
         THEN [is_none |-> FALSE, src |-> a.src, lo |-> a.lo, hi |-> b.hi]
         ELSE None

RECURSIVE Join(_)
\* "".join(chunks)
Join(chunks) ==
    IF chunks = <<>> THEN Str("", 0)
    ELSE IF Len(chunks) = 1 THEN chunks[1]
    ELSE Concat(chunks[1], Join(Tail(chunks)))

\* bot.py:55 and bot.py:91
SYSTEM_PROMPT == Str("You are a helpful assistant.", 28)

\* bot.py:85
ERROR_NOTICE ==
    Str("(warning sign) I encountered an error processing your request. Please try again later.", 74)

\* bot.py:93
RESET_ACK == Str("(arrows) Conversation history cleared!", 31)

\* update.message.from_user.first_name
FirstName(u) == IF u = 7 THEN "Ann" ELSE "Bo"

\* bot.py:41-44: the f-string greeting; 145 characters around the first name.
Greeting(first_name) ==
    IF first_name = "Ann"
    THEN Str("Hello Ann! (robot) I'm your ChatGPT-3.5 Telegram bot. ...", 148)
    ELSE Str("Hello Bo! (robot) I'm your ChatGPT-3.5 Telegram bot. ...", 147)

\* update.message.text of an inbound message
UserStr(text) == Str(text, 5)

\* Reply texts the completion service may return: a short one and one
\* that needs three chunks.
Replies == {Str("hi there", 8), Str("long reply", 2 * MAX_CHUNK + 1000)}

\* Reply texts of every length around the chunk boundaries.
ReplyLens ==
    {0, 1, MAX_CHUNK - 1, MAX_CHUNK, MAX_CHUNK + 1, 2 * MAX_CHUNK - 1, 2 * MAX_CHUNK,
     2 * MAX_CHUNK + 1, 2 * MAX_CHUNK + 1000, 3 * MAX_CHUNK}

BoundaryReplies == {Str("reply", n) : n \in ReplyLens}

-----------------------------------------------------------------------------
(* The completion service *)

\* What client.chat.completions.create (bot.py:63-68) can produce: it raises
\* (no connection, or an error status from the API), or it returns a response:
\* one with an empty choices list, or one whose first choice carries a
\* message content that is a str or None.
ResponsesWith(replies) ==
    {[kind |-> k, content |-> None] : k \in {"network_error", "api_error", "no_choices"}}
    \cup {[kind |-> "content", content |-> r] : r \in replies \cup {None}}

Responses == ResponsesWith(Replies)

BoundaryResponses == ResponsesWith(BoundaryReplies)

\* bot.py:63 raises, or bot.py:71 raises IndexError on choices[0].
RaisesBeforeReply(resp) == resp.kind \in {"network_error", "api_error", "no_choices"}

-----------------------------------------------------------------------------
(* The conversation store: conversations (bot.py:35), a dict user_id -> list *)

Turn(role, content) == [role |-> role, content |-> content]

\* bot.py:54-56 and bot.py:90-92
FreshConversation == << Turn("system", SYSTEM_PROMPT) >>

\* c[u] = v on a dict
SetItem(c, u, v) == [x \in (DOMAIN c) \cup {u} |-> IF x = u THEN v ELSE c[x]]

\* bot.py:53-56
GetOrCreate(c, u) == IF u \in DOMAIN c THEN c ELSE SetItem(c, u, FreshConversation)

\* a turn inserted right after the system turn (newest first)
AppendTurn_Insert(c, u, turn) == SetItem(c, u, << c[u][1], turn >> \o Tail(c[u]))

\* one list object shared by the users whose histories are equal: an append
\* through one of them shows in all of them
AppendTurn_Shared(c, u, turn) ==
    [x \in DOMAIN c |-> IF c[x] = c[u] THEN Append(c[x], turn) ELSE c[x]]

\* bot.py:59 and bot.py:74: conversations[user_id].append(turn)
AppendTurn(c, u, turn) == SetItem(c, u, Append(c[u], turn))

\* reset that leaves an empty list behind instead of the system turn
ResetStore_Empty(c, u) == SetItem(c, u, << >>)

\* reset that only clears a history that exists
ResetStore_ExistingOnly(c, u) == IF u \in DOMAIN c THEN SetItem(c, u, FreshConversation) ELSE c

\* reset that drops the entry (del conversations[user_id])
ResetStore_Delete(c, u) == [x \in (DOMAIN c) \ {u} |-> c[x]]

\* bot.py:90-92
ResetStore(c, u) == SetItem(c, u, FreshConversation)

\* a prompt made of the system turn and the message just received only
Messages_LastOnly(c, u, text) == Append(FreshConversation, Turn("user", UserStr(text)))

\* bot.py:53-65: messages=conversations[user_id], the list passed to the
\* completion call, read after the user turn has been appended.
Messages(c, u, text) ==
    AppendTurn(GetOrCreate(c, u), u, Turn("user", UserStr(text)))[u]

\* handle_message that records the reply before the message it answers
StoreAfterMessage_ReplyFirst(c, u, text, resp) ==
    IF RaisesBeforeReply(resp)
    THEN AppendTurn(GetOrCreate(c, u), u, Turn("user", UserStr(text)))
    ELSE AppendTurn(AppendTurn(GetOrCreate(c, u), u, Turn("assistant", resp.content)),
                    u, Turn("user", UserStr(text)))

\* handle_message that records an assistant turn for a failed call as well
StoreAfterMessage_FailedTurn(c, u, text, resp) ==
    AppendTurn(AppendTurn(GetOrCreate(c, u), u, Turn("user", UserStr(text))),
               u, Turn("assistant", resp.content))

\* bot.py:53-74: the store after the synchronous part of handle_message.
StoreAfterMessage(c, u, text, resp) ==
    LET withUser == AppendTurn(GetOrCreate(c, u), u, Turn("user", UserStr(text)))
    IN  IF RaisesBeforeReply(resp)
        THEN withUser
        ELSE AppendTurn(withUser, u, Turn("assistant", resp.content))

-----------------------------------------------------------------------------
(* Configuration: the process environment read at import and in main() *)

\* An environment value is a str (a sequence of characters or of longer
\* pieces of text) or None for a variable that is not set.
EnvStr(s) == [is_none |-> FALSE, val |-> s]

EnvNone == [is_none |-> TRUE, val |-> <<>>]

EnvNames ==
    {"TELEGRAM_TOKEN", "OPENAI_API_KEY", "RENDER", "RENDER_EXTERNAL_URL",
     "RENDER_SERVICE_NAME"}

CredentialValues == {EnvNone, EnvStr(<<>>), EnvStr(<<"secret">>)}

FlagValues ==
    {EnvNone, EnvStr(<<"t", "r", "u", "e">>), EnvStr(<<"T", "r", "u", "e">>),
     EnvStr(<<"f", "a", "l", "s", "e">>), EnvStr(<<"1">>)}

UrlValues == {EnvNone, EnvStr(<<>>), EnvStr(<<"https://bot.example.org">>)}

ServiceNameValues == {EnvNone, EnvStr(<<>>), EnvStr(<<"mickaibot">>)}

Environments ==
    {e \in [EnvNames -> CredentialValues \cup FlagValues \cup UrlValues \cup ServiceNameValues] :
        /\ e["TELEGRAM_TOKEN"] \in CredentialValues
        /\ e["OPENAI_API_KEY"] \in CredentialValues
        /\ e["RENDER"] \in FlagValues
        /\ e["RENDER_EXTERNAL_URL"] \in UrlValues
        /\ e["RENDER_SERVICE_NAME"] \in ServiceNameValues}

\* os.getenv(name, default)
Getenv(e, name, default) == IF e[name].is_none THEN default ELSE e[name]

\* Python truth value of an Optional[str]: None and "" are false.
Truthy(v) == ~v.is_none /\ v.val # <<>>

LowerChar(ch) ==
    CASE ch = "T" -> "t" [] ch = "R" -> "r" [] ch = "U" -> "u" [] ch = "E" -> "e"
      [] ch = "F" -> "f" [] ch = "A" -> "a" [] ch = "L" -> "l" [] ch = "S" -> "s"
      [] OTHER -> ch

\* str.lower()
Lower(s) == [k \in 1 .. Len(s) |-> LowerChar(s[k])]

\* bot.py:26: both credentials are set and non-empty.
CredentialsOk(e) == Truthy(e["TELEGRAM_TOKEN"]) /\ Truthy(e["OPENAI_API_KEY"])

\* the deployment flag compared without lower()
IsRender_CaseSensitive(e) ==
    Getenv(e, "RENDER", EnvStr(<<"f", "a", "l", "s", "e">>)).val = <<"t", "r", "u", "e">>

\* bot.py:108
IsRender(e) ==
    Lower(Getenv(e, "RENDER", EnvStr(<<"f", "a", "l", "s", "e">>)).val) = <<"t", "r", "u", "e">>

\* bot.py:112-121: the public URL, or None where main() raises RuntimeError.
PublicUrl(e) ==
    LET public_url   == Getenv(e, "RENDER_EXTERNAL_URL", EnvNone)
        service_name == Getenv(e, "RENDER_SERVICE_NAME", EnvNone)
    IN  IF Truthy(public_url) THEN public_url
        ELSE IF Truthy(service_name)
             THEN EnvStr(<<"https://">> \o service_name.val \o <<".onrender.com">>)
             ELSE EnvNone

\* bot.py:127
WebhookUrl(public_url) == EnvStr(public_url.val \o <<"/webhook">>)

-----------------------------------------------------------------------------
(* State *)

VARIABLES
    env,            \* the process environment
    phase,          \* "import", "imported", "ValueError", "RuntimeError",
                    \* "run_webhook", "run_polling"
    webhook_url,    \* the webhook_url passed to run_webhook, else None
    conversations,  \* bot.py:35
    task            \* the open handler invocations

vars == << env, phase, webhook_url, conversations, task >>

\* A handler invocation that is not running.
IdleTask ==
    [pc |-> "idle", handler |-> "none", user_id |-> 0, user_message |-> None,
     messages |-> << >>, response |-> "none", ai_reply |-> None, i |-> 0,
     out |-> <<>>]

\* A local deployment: both credentials set, nothing else.
LocalEnvironment ==
    [n \in EnvNames |->
       IF n \in {"TELEGRAM_TOKEN", "OPENAI_API_KEY"} THEN EnvStr(<<"secret">>) ELSE EnvNone]

InitWith(environments) ==
    /\ env \in environments
    /\ phase = "import"
    /\ webhook_url = EnvNone
    /\ conversations = << >>
    /\ task = [t \in Tasks |-> IdleTask]

Init == InitWith({LocalEnvironment})

Running == phase \in {"run_webhook", "run_polling"}

-----------------------------------------------------------------------------
(* Startup *)

\* bot.py:20-35: module import; raises ValueError on a missing credential.
import_module ==
    /\ phase = "import"
    /\ phase' = IF CredentialsOk(env) THEN "imported" ELSE "ValueError"
    /\ UNCHANGED << env, webhook_url, conversations, task >>

\* bot.py:95-136: main() up to app.run_webhook / app.run_polling.
main ==
    /\ phase = "imported"
    /\ IF IsRender(env)
       THEN IF PublicUrl(env).is_none
            THEN /\ phase' = "RuntimeError"
                 /\ UNCHANGED webhook_url
            ELSE /\ phase' = "run_webhook"
                 /\ webhook_url' = WebhookUrl(PublicUrl(env))
       ELSE /\ phase' = "run_polling"
            /\ UNCHANGED webhook_url
    /\ UNCHANGED << env, conversations, task >>

-----------------------------------------------------------------------------
(* Handlers *)

\* await update.message.reply_text(text) has been called by task t with the
\* given text; the call completes (next) or raises (raised).
ReplyText(t, text, delivered, next, raised) ==
    [task EXCEPT ![t].out = Append(@, text),
                 ![t].pc = IF delivered THEN next ELSE raised]

\* /start that opens a conversation for the user
start_Creates(t, u) ==
    /\ Running
    /\ task[t].pc = "idle"
    /\ conversations' = GetOrCreate(conversations, u)
    /\ task' = [task EXCEPT ![t] = [IdleTask EXCEPT !.pc = "greet", !.handler = "start",
                                                    !.user_id = u]]
    /\ UNCHANGED << env, phase, webhook_url >>

\* bot.py:37-40: /start up to the awaited reply.
start(t, u) ==
    /\ Running
    /\ task[t].pc = "idle"
    /\ task' = [task EXCEPT ![t] = [IdleTask EXCEPT !.pc = "greet", !.handler = "start",
                                                    !.user_id = u]]
    /\ UNCHANGED << env, phase, webhook_url, conversations >>

\* bot.py:40-45: the greeting is sent, or the send raises out of the handler.
start_reply(t, delivered) ==
    /\ task[t].pc = "greet"
    /\ task' = ReplyText(t, Greeting(FirstName(task[t].user_id)), delivered, "done", "raised")
    /\ UNCHANGED << env, phase, webhook_url, conversations >>

\* bot.py:87-93: /reset up to the awaited reply.
reset(t, u) ==
    /\ Running
    /\ task[t].pc = "idle"
    /\ conversations' = ResetStore(conversations, u)
    /\ task' = [task EXCEPT ![t] = [IdleTask EXCEPT !.pc = "ack", !.handler = "reset",
                                                    !.user_id = u]]
    /\ UNCHANGED << env, phase, webhook_url >>

\* bot.py:93: the acknowledgement is sent, or the send raises out of the handler.
reset_reply(t, delivered) ==
    /\ task[t].pc = "ack"
    /\ task' = ReplyText(t, RESET_ACK, delivered, "done", "raised")
    /\ UNCHANGED << env, phase, webhook_url, conversations >>

\* bot.py:77-85: where handle_message suspends first after the completion call.
FirstAwait(resp) ==
    IF RaisesBeforeReply(resp) THEN "except"       \* bot.py:83, from 63 or 71
    ELSE IF resp.content.is_none THEN "except"     \* bot.py:77: len(None) raises TypeError
    ELSE IF StrLen(resp.content) > MAX_CHUNK THEN "reply_chunk"  \* bot.py:78-79
    ELSE "reply_whole"                             \* bot.py:81

\* handle_message with an awaited completion call (an asynchronous client):
\* the handler suspends at "call" between the user turn and the reply.
handle_message_Suspending(t, u, text, resp) ==
    /\ Running
    /\ \/ /\ task[t].pc = "idle"
          /\ conversations' =
                AppendTurn(GetOrCreate(conversations, u), u, Turn("user", UserStr(text)))
          /\ task' = [task EXCEPT ![t] =
                        [IdleTask EXCEPT !.pc = "call", !.handler = "handle_message",
                                         !.user_id = u, !.user_message = UserStr(text),
                                         !.messages = Messages(conversations, u, text)]]
       \/ /\ task[t].pc = "call"
          /\ conversations' =
                IF RaisesBeforeReply(resp) THEN conversations
                ELSE AppendTurn(conversations, task[t].user_id,
                                Turn("assistant", resp.content))
          /\ task' = [task EXCEPT ![t].pc = FirstAwait(resp), ![t].response = resp.kind,
                                  ![t].ai_reply = resp.content]
    /\ UNCHANGED << env, phase, webhook_url >>

\* bot.py:47-77: handle_message from its start to its first await.
handle_message(t, u, text, resp) ==
    /\ Running
    /\ task[t].pc = "idle"
    /\ conversations' = StoreAfterMessage(conversations, u, text, resp)
    /\ task' = [task EXCEPT ![t] =
                  [IdleTask EXCEPT !.pc = FirstAwait(resp), !.handler = "handle_message",
                                   !.user_id = u, !.user_message = UserStr(text),
                                   !.messages = Messages(conversations, u, text),
                                   !.response = resp.kind,
                                   !.ai_reply = resp.content]]
    /\ UNCHANGED << env, phase, webhook_url >>

\* bot.py:78-79: one iteration of the loop over range(0, len(ai_reply), 4000).
\* A send that raises is caught by the except clause at bot.py:83.
reply_chunk(t, delivered) ==
    /\ task[t].pc = "reply_chunk"
    /\ LET i    == task[t].i
           more == i + MAX_CHUNK < StrLen(task[t].ai_reply)
       IN  task' = [ReplyText(t, Slice(task[t].ai_reply, i, i + MAX_CHUNK), delivered,
                              IF more THEN "reply_chunk" ELSE "done", "except")
                      EXCEPT ![t].i = IF delivered /\ more THEN i + MAX_CHUNK ELSE i]
    /\ UNCHANGED << env, phase, webhook_url, conversations >>

\* bot.py:81: a reply of at most 4000 characters is sent as it is.
\* A send that raises is caught by the except clause at bot.py:83.
reply_whole(t, delivered) ==
    /\ task[t].pc = "reply_whole"
    /\ task' = ReplyText(t, task[t].ai_reply, delivered, "done", "except")
    /\ UNCHANGED << env, phase, webhook_url, conversations >>

\* bot.py:83-85: the except clause sends the error notice; if that send
\* raises, the exception leaves the handler.
error_notice(t, delivered) ==
    /\ task[t].pc = "except"
    /\ task' = ReplyText(t, ERROR_NOTICE, delivered, "done", "raised")
    /\ UNCHANGED << env, phase, webhook_url, conversations >>

\* The handler has returned, or its exception has reached the framework.
finish(t) ==
    /\ task[t].pc \in {"done", "raised"}
    /\ task' = [task EXCEPT ![t] = IdleTask]
    /\ UNCHANGED << env, phase, webhook_url, conversations >>

\* The history of u is below the cap of the model.
Below(cap, u) == Len(GetOrCreate(conversations, u)[u]) < cap

\* One step of the process, with handlers run in the invocations tt for the
\* users uu, and the completion service answering from responses.
Step(tt, uu, responses, cap) ==
    \/ import_module
    \/ main
    \/ \E t \in tt, u \in uu : start(t, u)
    \/ \E t \in tt, delivered \in BOOLEAN : start_reply(t, delivered)
    \/ \E t \in tt, u \in uu : reset(t, u)
    \/ \E t \in tt, delivered \in BOOLEAN : reset_reply(t, delivered)
    \/ \E t \in tt, u \in uu, text \in UserTexts, resp \in responses :
          Below(cap, u) /\ handle_message(t, u, text, resp)
    \/ \E t \in tt, delivered \in BOOLEAN : reply_chunk(t, delivered)
    \/ \E t \in tt, delivered \in BOOLEAN : reply_whole(t, delivered)
    \/ \E t \in tt, delivered \in BOOLEAN : error_notice(t, delivered)
    \/ \E t \in tt : finish(t)

\* Any interleaving of two handler invocations for two users.
Next == Step(Tasks, Users, Responses, MaxTurns)

Spec == Init /\ [][Next]_vars

\* One user, one handler at a time, replies of every boundary length.
NextSerial == Step({1}, {7}, BoundaryResponses, MaxTurnsSequential)

SpecSerial == Init /\ [][NextSerial]_vars

\* Every environment; one user, one handler at a time.
InitConfig == InitWith(Environments)

NextConfig == Step({1}, {7}, Responses, MaxTurnsSequential)

SpecConfig == InitConfig /\ [][NextConfig]_vars

\* Any interleaving of two handler invocations for one user, with longer
\* histories.
NextUser == Step(Tasks, {7}, Responses, MaxTurnsSequential)

SpecUser == Init /\ [][NextUser]_vars

-----------------------------------------------------------------------------
(* Properties *)

\* Task t leaves "idle" in this step as an invocation of handler h.
Begins(t, h) == task[t].pc = "idle" /\ task'[t].handler = h

\* The conversation of u at the start of a handler, a new one if u has none.
Before(u) == IF u \in DOMAIN conversations THEN conversations[u] ELSE FreshConversation

\* The handler of task t has returned or raised.
Ended(t) == task[t].pc \in {"done", "raised"}

\* The texts sent by task t.
Sent(t) == {task[t].out[k] : k \in 1 .. Len(task[t].out)}

\* The completion call of task t returned a reply text.
GotReply(t) ==
    /\ task[t].handler = "handle_message"
    /\ task[t].response = "content"
    /\ ~task[t].ai_reply.is_none

SystemFirst(conv) ==
    /\ Len(conv) >= 1
    /\ conv[1].role = "system"
    /\ \A k \in 2 .. Len(conv) : conv[k].role # "system"

\* C1: every conversation in the store is non-empty, starts with a system
\* turn and has no other system turn, whatever /start commands, dispatches
\* (successful or failed) and resets have happened.
C1_SystemTurnFirst == \A u \in DOMAIN conversations : SystemFirst(conversations[u])

\* Both users have a history; one has a recorded exchange, the other was
\* reset after a message of theirs had been recorded.
C1_Witness ==
    /\ DOMAIN conversations = Users
    /\ \E u \in Users : Len(conversations[u]) = 3
    /\ \E t1, t2 \in Tasks :
          /\ task[t1].handler = "reset"
          /\ task[t2].handler = "handle_message"
          /\ task[t2].user_id = task[t1].user_id
          /\ Len(conversations[task[t1].user_id]) = 1

\* C2: a dispatch whose completion call returns a reply text extends the
\* user's conversation by exactly two turns, user:<text received> then
\* assistant:<reply returned>; for a user without an entry the result is
\* system, user, assistant.
C2_SuccessAddsTwo ==
    [][\A t \in Tasks :
          (Begins(t, "handle_message") /\ task'[t].response = "content"
             /\ ~task'[t].ai_reply.is_none)
          => LET u == task'[t].user_id
             IN  /\ u \in DOMAIN conversations'
                 /\ Len(conversations'[u]) = Len(Before(u)) + 2
                 /\ SubSeq(conversations'[u], 1, Len(Before(u))) = Before(u)
                 /\ conversations'[u][Len(Before(u)) + 1]
                      = Turn("user", task'[t].user_message)
                 /\ conversations'[u][Len(Before(u)) + 2]
                      = Turn("assistant", task'[t].ai_reply)
                 /\ (u \notin DOMAIN conversations
                       => /\ Len(conversations'[u]) = 3
                          /\ conversations'[u][1].role = "system")]_vars

\* A second successful dispatch in a row has completed: 1 + 2 * 2 turns.
C2_Witness ==
    \E t \in Tasks :
       /\ GotReply(t)
       /\ task[t].pc = "done"
       /\ LET conv == conversations[task[t].user_id]
          IN  /\ Len(conv) = 5
              /\ conv[2].role = "user" /\ conv[3].role = "assistant"
              /\ conv[4].role = "user" /\ conv[5].role = "assistant"
              /\ conv[5].content = task[t].ai_reply

C4_NoAssistantTurnOnError ==
    \A t \in Tasks :
       (task[t].handler = "handle_message" /\ ~GotReply(t))
       => LET conv == conversations[task[t].user_id]
          IN  conv[Len(conv)] = Turn("user", task[t].user_message)

CeilDiv(a, b) == (a + b - 1) \div b

\* C5: for a reply text of any length L >= 0, a dispatch that succeeds sends
\* exactly ceil(L / 4000) chunks, each of at most 4000 characters, whose
\* concatenation in order is the reply text.
C5_ChunkCount ==
    \A t \in Tasks :
       (GotReply(t) /\ task[t].pc = "done" /\ ERROR_NOTICE \notin Sent(t))
       => /\ Len(task[t].out) = CeilDiv(StrLen(task[t].ai_reply), MAX_CHUNK)
          /\ \A k \in 1 .. Len(task[t].out) : StrLen(task[t].out[k]) <= MAX_CHUNK
          /\ Join(task[t].out) = task[t].ai_reply

\* C6: a reset of u leaves exactly the system turn as the conversation of u,
\* whether u had a history of any length or no entry; the handler sends the
\* acknowledgement and nothing else; resetting twice gives the store that
\* resetting once gives.
C6_ResetGivesSystemTurn ==
    /\ [][\A t \in Tasks :
            Begins(t, "reset")
            => LET u == task'[t].user_id
               IN  /\ u \in DOMAIN conversations'
                   /\ conversations'[u] = << Turn("system", SYSTEM_PROMPT) >>]_vars
    /\ [](\A t \in Tasks :
            (task[t].handler = "reset" /\ Ended(t)) => task[t].out = << RESET_ACK >>)
    /\ [](\A u \in Users :
            /\ u \in DOMAIN ResetStore(conversations, u)
            /\ ResetStore(ResetStore(conversations, u), u) = ResetStore(conversations, u))

\* A user was reset after an exchange of theirs had been recorded (the
\* handler of that exchange is still open), and the acknowledgement was sent.
C6_Witness ==
    \E t1, t2 \in Tasks :
       /\ task[t1].handler = "reset" /\ task[t1].pc = "done"
       /\ task[t2].handler = "handle_message" /\ GotReply(t2)
       /\ task[t2].user_id = task[t1].user_id
       /\ conversations[task[t1].user_id] = << Turn("system", SYSTEM_PROMPT) >>
       /\ task[t1].out = << RESET_ACK >>

\* C7: a delivery error on a reply chunk, after the completion call has
\* returned a (non-empty) reply text, leaves the handler: the except clause is not
\* entered and no error notice is sent for it.
C7_DeliveryErrorPropagates ==
    \A t \in Tasks :
       (GotReply(t) /\ StrLen(task[t].ai_reply) > 0)
       => task[t].pc # "except" /\ ERROR_NOTICE \notin Sent(t)

\* An environment value that is set and not empty.
Present(v) == v \notin {EnvNone, EnvStr(<< >>)}

\* The deployment flag reads "true" in some capitalisation.
SelectsPush(e) ==
    e["RENDER"] \in {EnvStr(<<"t", "r", "u", "e">>), EnvStr(<<"T", "r", "u", "e">>)}

\* C8: startup fails, with no handler run, if a credential is missing, or if
\* the flag selects push mode and neither the explicit URL nor the service
\* name is set; otherwise push mode starts with the explicit URL if set, else
\* with the URL derived from the service name, and pull mode starts exactly
\* when the flag does not select push mode.
C8_StartupByConfiguration ==
    LET credentials == Present(env["TELEGRAM_TOKEN"]) /\ Present(env["OPENAI_API_KEY"])
        push        == SelectsPush(env)
        url         == env["RENDER_EXTERNAL_URL"]
        name        == env["RENDER_SERVICE_NAME"]
    IN  /\ phase = "ValueError" <=> (phase # "import" /\ ~credentials)
        /\ phase = "RuntimeError"
             <=> (phase \notin {"import", "imported"} /\ credentials /\ push
                    /\ ~Present(url) /\ ~Present(name))
        /\ phase = "run_webhook"
             <=> (phase \notin {"import", "imported"} /\ credentials /\ push
                    /\ (Present(url) \/ Present(name)))
        /\ phase = "run_polling"
             <=> (phase \notin {"import", "imported"} /\ credentials /\ ~push)
        /\ phase = "run_webhook"
             => webhook_url =
                  IF Present(url) THEN EnvStr(url.val \o <<"/webhook">>)
                  ELSE EnvStr(<<"https://">> \o name.val \o <<".onrender.com", "/webhook">>)
        /\ phase # "run_webhook" => webhook_url = EnvNone
        /\ ~Running => /\ conversations = << >>
                       /\ \A t \in Tasks : task[t] = IdleTask

\* Push mode runs on the URL derived from the service name, the flag being
\* written with a capital, and a message has been handled.
C8_Witness ==
    /\ phase = "run_webhook"
    /\ env["RENDER"] = EnvStr(<<"T", "r", "u", "e">>)
    /\ ~Present(env["RENDER_EXTERNAL_URL"])
    /\ webhook_url = EnvStr(<<"https://", "mickaibot", ".onrender.com", "/webhook">>)
    /\ conversations # << >>

\* C9: a user who has an entry in the store has one in every later state.
C9_NeverEvicted ==
    [][\A u \in DOMAIN conversations : u \in DOMAIN conversations']_vars

\* One entry was created by a reset, the other by a message, and both users
\* have been reset or served since.
C9_Witness ==
    /\ DOMAIN conversations = Users
    /\ task[1].handler = "reset" /\ task[1].pc = "done"
    /\ task[2].handler = "handle_message" /\ task[2].pc = "done"
    /\ task[1].user_id # task[2].user_id
    /\ Len(conversations[task[1].user_id]) = 1
    /\ Len(conversations[task[2].user_id]) = 3

\* C10: no step of a /start handler changes the store, for a user with or
\* without an entry, and the handler sends the greeting and nothing else.
C10_StartLeavesStore ==
    /\ [][\A t \in Tasks :
            (Begins(t, "start") \/ (task[t].handler = "start" /\ task'[t] # task[t]))
            => conversations' = conversations]_vars
    /\ [](\A t \in Tasks :
            (task[t].handler = "start" /\ Ended(t))
            => /\ Len(task[t].out) = 1
               /\ task[t].out[1].src = "Hello Ann! (robot) I'm your ChatGPT-3.5 Telegram bot. ..."
                    <=> task[t].user_id = 7)

\* /start has been answered for a user without an entry while the other
\* user has a recorded exchange.
C10_Witness ==
    \E t \in Tasks :
       /\ task[t].handler = "start"
       /\ task[t].pc = "done"
       /\ task[t].user_id \notin DOMAIN conversations
       /\ \E v \in DOMAIN conversations : Len(conversations[v]) = 3

\* The roles of the turns of a conversation, in order.
Roles(conv) == [k \in 1 .. Len(conv) |-> conv[k].role]

\* C11: the prompt passed to the completion call of a dispatch for u is the
\* conversation of u at that moment: everything recorded for u (a fresh
\* system turn if u has no entry), in order, followed by the user turn just
\* received, which is also what the store holds up to that turn.
C11_PromptIsFullConversation ==
    [][\A t \in Tasks :
          Begins(t, "handle_message")
          => LET u == task'[t].user_id
                 m == task'[t].messages
             IN  /\ m = Append(Before(u), Turn("user", task'[t].user_message))
                 /\ m[1] = Turn("system", SYSTEM_PROMPT)
                 /\ m[Len(m)] = Turn("user", task'[t].user_message)
                 /\ Len(conversations'[u]) >= Len(m)
                 /\ SubSeq(conversations'[u], 1, Len(m)) = m]_vars

\* The prompt carries the user turns of two earlier failed dispatches.
C11_Witness ==
    \E t \in Tasks :
       /\ task[t].handler = "handle_message"
       /\ Roles(task[t].messages) = << "system", "user", "user", "user" >>

\* The handler of task t is suspended at one of its sends.
InFlight(t) == task[t].handler = "handle_message" /\ ~Ended(t)

\* p is a prefix of conv.
IsPrefix(p, conv) == Len(p) <= Len(conv) /\ SubSeq(conv, 1, Len(p)) = p

\* Two dispatches that got a reply are in flight for one user, the history
\* holds what both were prompted with and at least four turns more than the
\* system turn.
TwoInFlight(t1, t2) ==
    /\ t1 # t2
    /\ GotReply(t1) /\ InFlight(t1)
    /\ GotReply(t2) /\ InFlight(t2)
    /\ task[t1].user_id = task[t2].user_id
    /\ IsPrefix(task[t1].messages, conversations[task[t1].user_id])
    /\ IsPrefix(task[t2].messages, conversations[task[t1].user_id])
    /\ Len(conversations[task[t1].user_id]) >= 5

\* The last four roles of a conversation of at least four turns.
LastFour(conv) == SubSeq(Roles(conv), Len(conv) - 3, Len(conv))

\* C12 (as claimed): two dispatches in flight for one user, not serialized,
\* interleave their appends: both user turns come before either assistant
\* turn, so the order user, assistant is kept only under serialization.
C12_ConcurrentAppendsInterleave ==
    \A t1, t2 \in Tasks :
       TwoInFlight(t1, t2)
       => LastFour(conversations[task[t1].user_id])
            = << "user", "user", "assistant", "assistant" >>

\* C12 (amended): appends of dispatches never interleave, serialized or not:
\* an assistant turn enters a conversation only in the step that also
\* appends the user turn it answers, directly after that turn, so no other
\* append can come between the two.
C12_AppendsNeverInterleave ==
    [][\A u \in DOMAIN conversations' :
          \A k \in 1 .. Len(conversations'[u]) :
             (k > Len(Before(u)) /\ conversations'[u][k].role = "assistant")
             => /\ k - 1 > Len(Before(u))
                /\ conversations'[u][k - 1].role = "user"]_vars

\* Two dispatches are in flight for one user and their turns are in order.
C12_Witness ==
    \E t1, t2 \in Tasks :
       /\ TwoInFlight(t1, t2)
       /\ LastFour(conversations[task[t1].user_id])
            = << "user", "assistant", "user", "assistant" >>

\* This step starts a reset for u.
ResetOf(u) == \E t \in Tasks : Begins(t, "reset") /\ task'[t].user_id = u

\* C13: in every step other than a reset of u, the conversation of u before
\* the step is a prefix of the conversation of u after it.
C13_AppendOnly ==
    [][\A u \in DOMAIN conversations :
          ResetOf(u)
          \/ /\ u \in DOMAIN conversations'
             /\ Len(conversations'[u]) >= Len(conversations[u])
             /\ SubSeq(conversations'[u], 1, Len(conversations[u]))
                  = conversations[u]]_vars

\* Three dispatches have appended to one history, two of them failed.
C13_Witness ==
    \E u \in DOMAIN conversations :
       Roles(conversations[u]) = << "system", "user", "user", "user", "assistant" >>

\* The user a step of task t acts for, and the handler it runs.
ActingUser(t) == IF task[t].pc = "idle" THEN task'[t].user_id ELSE task[t].user_id

ActingHandler(t) == IF task[t].pc = "idle" THEN task'[t].handler ELSE task[t].handler

\* C14: a step of a dispatch or of a reset for u leaves every other user's
\* conversation as it was, and neither creates nor removes their entry.
C14_OtherUsersUntouched ==
    [][\A t \in Tasks :
          (task'[t] # task[t] /\ ActingHandler(t) \in {"handle_message", "reset"})
          => \A v \in Users \ {ActingUser(t)} :
                /\ v \in DOMAIN conversations <=> v \in DOMAIN conversations'
                /\ v \in DOMAIN conversations => conversations'[v] = conversations[v]]_vars

\* Dispatches for the two users are in flight, one failed, one answered.
C14_Witness ==
    /\ InFlight(1) /\ InFlight(2)
    /\ task[1].user_id # task[2].user_id
    /\ Roles(conversations[task[1].user_id]) = << "system", "user" >>
    /\ Roles(conversations[task[2].user_id]) = << "system", "user", "assistant" >>

\* C15: a dispatch appends nothing after its first step, so a reset that
\* takes effect while the dispatch is open clears all of its turns for good;
\* every assistant turn directly follows a user turn, and no conversation
\* has the form system, assistant, ...
C15_ResetClearsOpenDispatch ==
    /\ [][\A t \in Tasks :
            (task[t].handler = "handle_message" /\ task'[t] # task[t])
            => conversations' = conversations]_vars
    /\ [](\A u \in DOMAIN conversations :
            \A k \in 1 .. Len(conversations[u]) :
               conversations[u][k].role = "assistant"
               => k > 2 /\ conversations[u][k - 1].role = "user")

\* A reset has cleared the history of a user while a dispatch of theirs,
\* begun before it, is still sending the chunks of its reply.
C15_Witness ==
    \E t1, t2 \in Tasks :
       /\ GotReply(t1) /\ task[t1].pc = "reply_chunk" /\ task[t1].i > 0
       /\ task[t2].handler = "reset"
       /\ task[t2].user_id = task[t1].user_id
       /\ Roles(conversations[task[t1].user_id]) = << "system" >>

====
